---- MODULE Spec2Model ----
(***************************************************************************)
(* Model of src/src/util/reducirPDFsMesActual.py: the scan of one          *)
(* composite PDF (procesar_pdf_compuesto), the export of the last page of  *)
(* every invoice and the batch loop of main().                             *)
(*                                                                         *)
(* A page is reduced to the two signals the scan reads from its text:      *)
(*   id     = detectar_id_factura(tx)   (None or an invoice identifier)    *)
(*   cierre = es_ultima_por_marca(tx)   (the page says "Pagina X de X")    *)
(*                                                                         *)
(* Specifications:                                                         *)
(*   Spec       the scan of one document, page by page                     *)
(*   SpecLote   main(): the batch, the export and the moving of sources   *)
(*   SpecDos    consecutive calls of the scan, with unreadable pages       *)
(*   SpecTexto  the two functions that read the text of a page, character  *)
(*              by character                                               *)
(*   SpecBuscaJusta  the loop that looks for a free output name, one       *)
(*              iteration per step                                         *)
(***************************************************************************)
EXTENDS Integers, Sequences, FiniteSets, TLC

\* ---------------------------------------------------------------- bounds
MaxPages == 6
MaxDocPages == 2
MaxDocs == 2
MaxPagesDos == 3
MaxSufijo == 2

\* ------------------------------------------------------------ vocabulary
None == "None"
Ids == {"A", "B", "C/1"}
Signals == [id : Ids \cup {None}, cierre : BOOLEAN]

\* identifiers of the documents of a batch
IdsLote == {"A", "C/1"}
SignalsLote == [id : IdsLote \cup {None}, cierre : BOOLEAN]

Max(a, b) == IF a >= b THEN a ELSE b

\* d[k] = v of a Python dict
Put(d, k, v) == [x \in (DOMAIN d) \cup {k} |-> IF x = k THEN v ELSE d[x]]

EmptyDict == [x \in {} |-> 0]

\* ------------------------------------------------------------ scan state
VARIABLES
    pc,               \* position inside procesar_pdf_compuesto
    n,                \* len(reader.pages) of the document opened last
    i,                \* loop index of "for i in range(n)"
    paginas,          \* signals of the pages read so far, reader.pages[0..i]
    current_id,
    primera_pagina,
    ultima_pagina,
    orden_aparicion,
    secuencia

scanVars == <<pc, n, i, paginas, current_id, primera_pagina, ultima_pagina,
              orden_aparicion, secuencia>>

\* the scan variables the batch specification never writes
scanQuietos == <<pc, i, paginas, current_id, primera_pagina, ultima_pagina,
                 orden_aparicion, secuencia>>

\* --------------------------------------------------- batch state (main)
VARIABLES
    mpc,              \* position inside main() and the export loop
    fs_ci,            \* the filesystem compares names ignoring case
    src_files,        \* PDFs present in src_dir
    proc_files,       \* names present in src_dir/Procesados
    dst_files,        \* names present in dst_dir
    dst_fijos,        \* entries of dst_dir that limpiar_destino cannot remove
    pdfs,             \* sorted(pdfs)
    f,                \* position of fname in sorted(pdfs), from 1
    total_paginas,
    procesados,
    errores,
    escaneo,          \* locals of the scan of the document being exported
    pares,
    j,                \* position in pares of the export loop, from 1
    ya_usados,
    exportadas,
    out_path,         \* path of the last file written
    writer,           \* indexes of reader.pages added to the PdfWriter
    devuelto,         \* fname -> n returned by procesar_pdf_compuesto
    hist              \* fname -> segments resolved and files written (the log)

loteVars == <<mpc, fs_ci, src_files, proc_files, dst_files, dst_fijos, pdfs, f,
              total_paginas, procesados, errores, escaneo, pares, j,
              ya_usados, exportadas, out_path, writer, devuelto, hist>>

\* ------------------------------- state of consecutive calls of the scan
VARIABLES
    documento,        \* pages of the document under study
    reader,           \* pages of the document of the current call
    pasada,           \* which call of procesar_pdf_compuesto this is, from 1
    previo            \* segments the first call resolved for documento

dosVars == <<documento, reader, pasada, previo>>

\* ------------------------------------ state of the reading of one page
VARIABLES
    tx,               \* tx = _text(page), a sequence of characters
    tpc,              \* position between the two functions that read tx
    es_ultima,        \* es_ultima_por_marca(tx)
    detectado         \* detectar_id_factura(tx); <<>> stands for None

textoVars == <<tx, tpc, es_ultima, detectado>>

\* The five locals of the scan as one record, so that the same steps serve
\* the page-by-page specification and the whole-document function.
Estado0 ==
    [current_id |-> None, primera_pagina |-> EmptyDict,
     ultima_pagina |-> EmptyDict, orden_aparicion |-> EmptyDict,
     secuencia |-> 0]

EstadoActual ==
    [current_id |-> current_id, primera_pagina |-> primera_pagina,
     ultima_pagina |-> ultima_pagina, orden_aparicion |-> orden_aparicion,
     secuencia |-> secuencia]

\* if current_id and es_ultima_por_marca(tx): ultima_pagina[current_id] = i
MarcaUltima_SoloSiNoHay(st, k, pg) ==
    IF st.current_id # None /\ pg.cierre
       /\ st.current_id \notin DOMAIN st.ultima_pagina
    THEN [st EXCEPT !.ultima_pagina = Put(@, st.current_id, k)]
    ELSE st

MarcaUltima_SinActivo(st, k, pg) ==
    IF pg.cierre /\ (st.current_id # None \/ pg.id # None)
    THEN [st EXCEPT !.ultima_pagina =
             Put(@, IF st.current_id # None THEN st.current_id ELSE pg.id, k)]
    ELSE st

MarcaUltima(st, k, pg) ==
    IF st.current_id # None /\ pg.cierre
    THEN [st EXCEPT !.ultima_pagina = Put(@, st.current_id, k)]
    ELSE st

\* found = detectar_id_factura(tx); if found: ... (first invoice / change)
NuevaFactura_PrimeraCero(st, k, found) ==
    [st EXCEPT !.current_id = found,
               !.secuencia = @ + 1,
               !.orden_aparicion = Put(@, found, st.secuencia + 1),
               !.primera_pagina = Put(@, found, 0)]

NuevaFactura(st, k, found) ==
    [st EXCEPT !.current_id = found,
               !.secuencia = @ + 1,
               !.orden_aparicion = Put(@, found, st.secuencia + 1),
               !.primera_pagina = Put(@, found, k)]

CambioFactura_SiempreCierra(st, k, pg) ==
    LET found == pg.id IN
    IF found = None THEN st
    ELSE IF st.current_id = None THEN NuevaFactura(st, k, found)
    ELSE IF found # st.current_id THEN
        LET prev == st.current_id
            cerrado ==
                [st EXCEPT !.ultima_pagina =
                    Put(@, prev, Max(k - 1, st.primera_pagina[prev]))]
        IN  IF found \notin DOMAIN cerrado.orden_aparicion
            THEN NuevaFactura(cerrado, k, found)
            ELSE [cerrado EXCEPT !.current_id = found]
    ELSE st

CambioFactura_CierraEnPrimera(st, k, pg) ==
    LET found == pg.id IN
    IF found = None THEN st
    ELSE IF st.current_id = None THEN NuevaFactura(st, k, found)
    ELSE IF found # st.current_id THEN
        LET prev == st.current_id
            cerrado ==
                IF prev \notin DOMAIN st.ultima_pagina
                THEN [st EXCEPT !.ultima_pagina =
                         Put(@, prev, st.primera_pagina[prev])]
                ELSE st
        IN  IF found \notin DOMAIN cerrado.orden_aparicion
            THEN NuevaFactura(cerrado, k, found)
            ELSE [cerrado EXCEPT !.current_id = found]
    ELSE st

CambioFactura_Renumera(st, k, pg) ==
    LET found == pg.id IN
    IF found = None THEN st
    ELSE IF st.current_id = None THEN NuevaFactura(st, k, found)
    ELSE IF found # st.current_id THEN
        LET prev == st.current_id
            cerrado ==
                IF prev \notin DOMAIN st.ultima_pagina
                THEN [st EXCEPT !.ultima_pagina =
                         Put(@, prev, Max(k - 1, st.primera_pagina[prev]))]
                ELSE st
        IN  NuevaFactura(cerrado, k, found)
    ELSE st

CambioFactura_SinIdCierra(st, k, pg) ==
    LET found == pg.id IN
    IF found = None THEN
        IF st.current_id # None /\ st.current_id \notin DOMAIN st.ultima_pagina
        THEN [st EXCEPT !.ultima_pagina = Put(@, st.current_id, k),
                        !.current_id = None]
        ELSE st
    ELSE IF st.current_id = None THEN NuevaFactura(st, k, found)
    ELSE IF found # st.current_id THEN
        LET prev == st.current_id
            cerrado ==
                IF prev \notin DOMAIN st.ultima_pagina
                THEN [st EXCEPT !.ultima_pagina =
                         Put(@, prev, Max(k - 1, st.primera_pagina[prev]))]
                ELSE st
        IN  IF found \notin DOMAIN cerrado.orden_aparicion
            THEN NuevaFactura(cerrado, k, found)
            ELSE [cerrado EXCEPT !.current_id = found]
    ELSE st

CambioFactura(st, k, pg) ==
    LET found == pg.id IN
    IF found = None THEN st
    ELSE IF st.current_id = None THEN NuevaFactura(st, k, found)
    ELSE IF found # st.current_id THEN
        LET prev == st.current_id
            \* primera_pagina.get(prev, i - 1): prev always has a first page
            cerrado ==
                IF prev \notin DOMAIN st.ultima_pagina
                THEN [st EXCEPT !.ultima_pagina =
                         Put(@, prev,
                             Max(k - 1,
                                 IF prev \in DOMAIN st.primera_pagina
                                 THEN st.primera_pagina[prev] ELSE k - 1))]
                ELSE st
        IN  IF found \notin DOMAIN cerrado.orden_aparicion
            THEN NuevaFactura(cerrado, k, found)
            ELSE [cerrado EXCEPT !.current_id = found]
    ELSE st

CierreFinal_EnN(st, np) ==
    IF st.current_id # None /\ st.current_id \notin DOMAIN st.ultima_pagina
    THEN [st EXCEPT !.ultima_pagina = Put(@, st.current_id, np)]
    ELSE st

CierreFinal_Siempre(st, np) ==
    IF st.current_id # None
    THEN [st EXCEPT !.ultima_pagina = Put(@, st.current_id, np - 1)]
    ELSE st

CierreFinal_Nunca(st, np) == st

\* if current_id and current_id not in ultima_pagina: ultima_pagina[..] = n-1
CierreFinal(st, np) ==
    IF st.current_id # None /\ st.current_id \notin DOMAIN st.ultima_pagina
    THEN [st EXCEPT !.ultima_pagina = Put(@, st.current_id, np - 1)]
    ELSE st

\* ------------------------------------------------ page-by-page scan (Spec)
PonEstado(st) ==
    /\ current_id' = st.current_id
    /\ primera_pagina' = st.primera_pagina
    /\ ultima_pagina' = st.ultima_pagina
    /\ orden_aparicion' = st.orden_aparicion
    /\ secuencia' = st.secuencia

\* the scan variables before any page is read
EscaneoInicial ==
    /\ pc = "abrir"
    /\ i = 0
    /\ paginas = <<>>
    /\ current_id = None
    /\ primera_pagina = EmptyDict
    /\ ultima_pagina = EmptyDict
    /\ orden_aparicion = EmptyDict
    /\ secuencia = 0

\* no call of the scan has been made
DosInicial ==
    /\ documento = <<>>
    /\ reader = <<>>
    /\ pasada = 0
    /\ previo = {}

\* no page text is being read
TextoInicial ==
    /\ tx = <<>>
    /\ tpc = "hecho"
    /\ es_ultima = FALSE
    /\ detectado = <<>>

\* the batch variables before main() has done anything
LoteInicial ==
    /\ mpc = "limpiar"
    /\ pdfs = <<>>
    /\ f = 1
    /\ total_paginas = 0
    /\ procesados = 0
    /\ errores = <<>>
    /\ escaneo = Estado0
    /\ pares = <<>>
    /\ j = 1
    /\ ya_usados = {}
    /\ exportadas = 0
    /\ writer = <<>>
    /\ out_path = [orden |-> 0, fid |-> "", base |-> "", k |-> 0]
    /\ devuelto = EmptyDict
    /\ hist = EmptyDict

\* Spec: the scan of one document of up to MaxPages pages, on its own
Init ==
    /\ EscaneoInicial
    /\ n \in 0..MaxPages
    /\ LoteInicial
    /\ DosInicial
    /\ TextoInicial
    /\ fs_ci = FALSE
    /\ src_files = {}
    /\ proc_files = {}
    /\ dst_files = {}
    /\ dst_fijos = {}

\* n = len(reader.pages); if n == 0: return 0
Abrir ==
    /\ pc = "abrir"
    /\ pc' = IF n = 0 THEN "hecho" ELSE "marca"
    /\ UNCHANGED <<n, i, paginas, current_id, primera_pagina, ultima_pagina,
                   orden_aparicion, secuencia>>
    /\ UNCHANGED loteVars
    /\ UNCHANGED dosVars
    /\ UNCHANGED textoVars

\* page = reader.pages[i]; tx = _text(page); closing-mark rule
LeerYMarcar ==
    /\ pc = "marca"
    /\ \E pg \in Signals :
          /\ paginas' = Append(paginas, pg)
          /\ PonEstado(MarcaUltima(EstadoActual, i, pg))
    /\ pc' = "detecta"
    /\ UNCHANGED <<n, i>>
    /\ UNCHANGED loteVars
    /\ UNCHANGED dosVars
    /\ UNCHANGED textoVars

\* found = detectar_id_factura(tx) and the identifier rules; next i
Detectar ==
    /\ pc = "detecta"
    /\ PonEstado(CambioFactura(EstadoActual, i, paginas[i + 1]))
    /\ i' = i + 1
    /\ pc' = IF i + 1 = n THEN "final" ELSE "marca"
    /\ UNCHANGED <<n, paginas>>
    /\ UNCHANGED loteVars
    /\ UNCHANGED dosVars
    /\ UNCHANGED textoVars

\* end of the loop: close the invoice that is still open
Finalizar ==
    /\ pc = "final"
    /\ PonEstado(CierreFinal(EstadoActual, n))
    /\ pc' = "hecho"
    /\ UNCHANGED <<n, i, paginas>>
    /\ UNCHANGED loteVars
    /\ UNCHANGED dosVars
    /\ UNCHANGED textoVars

Next == Abrir \/ LeerYMarcar \/ Detectar \/ Finalizar

vars == <<scanVars, loteVars, dosVars, textoVars>>

Spec == Init /\ [][Next]_vars

\* The segments the scan hands to the export: one per key of ultima_pagina.
Segmentos ==
    { <<id, primera_pagina[id], ultima_pagina[id], orden_aparicion[id]>> :
        id \in DOMAIN ultima_pagina }

\* --------------------------------------------------- whole-document scan
RECURSIVE EscanearDesde(_, _, _)
EscanearDesde(st, doc, k) ==
    IF k = Len(doc) THEN st
    ELSE EscanearDesde(CambioFactura(MarcaUltima(st, k, doc[k + 1]), k, doc[k + 1]),
                       doc, k + 1)

\* the loop over range(n) followed by the closing of the open invoice
Escanear(doc) == CierreFinal(EscanearDesde(Estado0, doc, 0), Len(doc))

\* sorted(ultima_pagina.items(), key=lambda kv: orden_aparicion.get(kv[0], 10**9))
OrdenDe(st, fid) ==
    IF fid \in DOMAIN st.orden_aparicion THEN st.orden_aparicion[fid] ELSE 10^9

RECURSIVE ParesDe(_, _)
ParesDe(st, S) ==
    IF S = {} THEN <<>>
    ELSE LET m == CHOOSE a \in S : \A b \in S : OrdenDe(st, a) <= OrdenDe(st, b)
         IN  <<(<<m, st.ultima_pagina[m]>>)>> \o ParesDe(st, S \ {m})

Pares_PorPrimera(st) ==
    LET ps == ParesDe(st, DOMAIN st.ultima_pagina)
    IN  [p \in 1..Len(ps) |-> <<ps[p][1], st.primera_pagina[ps[p][1]]>>]

Pares(st) == ParesDe(st, DOMAIN st.ultima_pagina)

DocsLote == UNION { [1..m -> SignalsLote] : m \in 0..MaxDocPages }

\* n = len(reader.pages) and what the scan leaves for the documents of
\* DocsLote; a document without pages returns before the scan, with nothing
\* resolved
EscaneosLote ==
    { [n |-> Len(doc),
       escaneo |-> IF Len(doc) = 0 THEN Estado0 ELSE Escanear(doc)] :
         doc \in DocsLote }

\* ------------------------------------------------------------ file names
\* A source PDF "<stem>.<ext>"; k > 0 is the suffix "_k" mover_origen adds.
Pdf(stem, ext) == [stem |-> stem, ext |-> ext, k |-> 0]

NombresPdf == { Pdf("X", "pdf"), Pdf("x", "PDF"), Pdf("x", "pdf"), Pdf("y", "pdf") }

\* str.lower() on the pieces of the names of the model
LowerStr(s) == CASE s = "X" -> "x" [] s = "PDF" -> "pdf" [] OTHER -> s

LowerPdf(q) == [q EXCEPT !.stem = LowerStr(@), !.ext = LowerStr(@)]

\* position of a name in sorted(): "X.pdf" < "x.PDF" < "x.pdf" < "y.pdf"
Clave(q) ==
    2 * (CASE q.stem = "X" -> 0 [] q.stem = "x" -> 1 [] OTHER -> 2)
      + (IF q.ext = "PDF" THEN 0 ELSE 1)

RECURSIVE Sorted(_)
Sorted(S) ==
    IF S = {} THEN <<>>
    ELSE LET m == CHOOSE a \in S : \A b \in S : Clave(a) <= Clave(b)
         IN  <<m>> \o Sorted(S \ {m})

\* re.sub(r"[^A-Za-z0-9\-_\.]+", "_", s).strip("_") on the identifiers of
\* the model: "/" is the only character replaced
nombre_seguro(s) == IF s = "C/1" THEN "C_1" ELSE s

\* f"{orden:03d}_{fid_safe}__{base_name}_ULTIMA.pdf", with "_k" when k > 0
Ruta(orden, fid_safe, base_name, k) ==
    [orden |-> orden, fid |-> fid_safe, base |-> base_name, k |-> k]

\* out_path.lower(): the digits, the upper-case identifier and the fixed
\* text map one-to-one, only the base name can lose a distinction
LowerRuta(r) == [r EXCEPT !.base = LowerStr(@)]

\* os.path.exists(out_path) in dst_dir
ExisteRuta(dir, r) ==
    IF fs_ci THEN \E q \in dir : LowerRuta(q) = LowerRuta(r) ELSE r \in dir

\* os.path.exists(dest) in src_dir/Procesados
ExistePdf(dir, q) ==
    IF fs_ci THEN \E r \in dir : LowerPdf(r) = LowerPdf(q) ELSE q \in dir

\* k = 1; while out_path.lower() in ya_usados or os.path.exists(out_path): ...
RECURSIVE BuscaRuta_SinExists(_, _, _, _)
BuscaRuta_SinExists(cand, k, usados, dir) ==
    IF LowerRuta(cand) \in usados
    THEN BuscaRuta_SinExists([cand EXCEPT !.k = k], k + 1, usados, dir)
    ELSE cand

RECURSIVE BuscaRuta(_, _, _, _)
BuscaRuta(cand, k, usados, dir) ==
    IF LowerRuta(cand) \in usados \/ ExisteRuta(dir, cand)
    THEN BuscaRuta([cand EXCEPT !.k = k], k + 1, usados, dir)
    ELSE cand

\* the out_path of the segment at position j of pares
RutaLibre ==
    LET fid == pares[j][1]
        orden == IF fid \in DOMAIN escaneo.orden_aparicion
                 THEN escaneo.orden_aparicion[fid] ELSE 0
    IN  BuscaRuta(Ruta(orden, nombre_seguro(fid), pdfs[f].stem, 0), 1,
                  ya_usados, dst_files)

\* mover_origen: the free name in Procesados
RECURSIVE DestinoLibre(_, _, _)
DestinoLibre(q, k, dir) ==
    IF ExistePdf(dir, [q EXCEPT !.k = k])
    THEN DestinoLibre(q, k + 1, dir)
    ELSE [q EXCEPT !.k = k]

Destino_Sobrescribe(q, dir) == q

Destino(q, dir) == IF ExistePdf(dir, q) THEN DestinoLibre(q, 1, dir) ELSE q

\* a directory listing the filesystem can hold
Listable(dir) ==
    fs_ci => \A a, b \in dir : LowerPdf(a) = LowerPdf(b) => a = b

RestosDst == { Ruta(1, "A", "y", 0) }
RestosProc == { Pdf("x", "pdf"), [Pdf("x", "pdf") EXCEPT !.k = 1] }

\* ------------------------------------------------------ the batch (main)
InitLote ==
    /\ EscaneoInicial
    /\ n = 0
    /\ LoteInicial
    /\ DosInicial
    /\ TextoInicial
    /\ fs_ci \in BOOLEAN
    /\ src_files \in { S \in SUBSET NombresPdf : Cardinality(S) <= MaxDocs }
    /\ Listable(src_files)
    /\ proc_files \in SUBSET RestosProc
    /\ dst_files \in SUBSET RestosDst
    /\ dst_fijos \in SUBSET dst_files

\* next fname of "for fname in sorted(pdfs)"
Avanza ==
    /\ f' = f + 1
    /\ mpc' = IF f + 1 > Len(pdfs) THEN "fin" ELSE "doc"

\* limpiar_destino(dst_dir); pdfs = [...]; if not pdfs: return
LimpiarYListar ==
    /\ mpc = "limpiar"
    /\ dst_files' = dst_fijos
    /\ pdfs' = Sorted(src_files)
    /\ mpc' = IF src_files = {} THEN "fin" ELSE "doc"
    /\ UNCHANGED <<fs_ci, src_files, proc_files, dst_fijos, f, total_paginas,
                   procesados, errores, escaneo, pares, j, ya_usados,
                   exportadas, out_path, writer, devuelto, hist>>
    /\ UNCHANGED scanVars
    /\ UNCHANGED dosVars
    /\ UNCHANGED textoVars

\* reader = PdfReader(pdf_path) raises: except Exception in main
AbrirFalla_Termina ==
    /\ mpc = "doc"
    /\ errores' = Append(errores, [fname |-> pdfs[f], causa |-> "abrir"])
    /\ mpc' = "fin"
    /\ UNCHANGED <<fs_ci, src_files, proc_files, dst_files, dst_fijos, pdfs, f,
                   total_paginas, procesados, escaneo, pares, j, ya_usados,
                   exportadas, out_path, writer, devuelto, hist>>
    /\ UNCHANGED scanVars
    /\ UNCHANGED dosVars
    /\ UNCHANGED textoVars

AbrirFalla ==
    /\ mpc = "doc"
    /\ errores' = Append(errores, [fname |-> pdfs[f], causa |-> "abrir"])
    /\ Avanza
    /\ UNCHANGED <<fs_ci, src_files, proc_files, dst_files, dst_fijos, pdfs,
                   total_paginas, procesados, escaneo, pares, j, ya_usados,
                   exportadas, out_path, writer, devuelto, hist>>
    /\ UNCHANGED scanVars
    /\ UNCHANGED dosVars
    /\ UNCHANGED textoVars

AbrirDoc_SinPaginasFalla ==
    /\ mpc = "doc"
    /\ \E doc \in EscaneosLote :
          /\ n' = doc.n
          /\ escaneo' = doc.escaneo
          /\ pares' = Pares(doc.escaneo)
          /\ hist' = Put(hist, pdfs[f],
                         [fids |-> [p \in 1..Len(pares') |-> pares'[p][1]],
                          escritas |-> <<>>])
          /\ errores' = IF doc.n = 0
                        THEN Append(errores, [fname |-> pdfs[f], causa |-> "abrir"])
                        ELSE errores
    /\ j' = 1
    /\ ya_usados' = {}
    /\ exportadas' = 0
    /\ mpc' = "exportar"
    /\ UNCHANGED <<fs_ci, src_files, proc_files, dst_files, dst_fijos, pdfs, f,
                   total_paginas, procesados, out_path, writer, devuelto>>
    /\ UNCHANGED scanQuietos
    /\ UNCHANGED dosVars
    /\ UNCHANGED textoVars

\* the document opens: scan it and sort the segments (with no pages the
\* function returns 0 at once, which is the return of an empty export)
AbrirDoc ==
    /\ mpc = "doc"
    /\ \E doc \in EscaneosLote :
          /\ n' = doc.n
          /\ escaneo' = doc.escaneo
          /\ pares' = Pares(doc.escaneo)
          /\ hist' = Put(hist, pdfs[f],
                         [fids |-> [p \in 1..Len(pares') |-> pares'[p][1]],
                          escritas |-> <<>>])
    /\ j' = 1
    /\ ya_usados' = {}
    /\ exportadas' = 0
    /\ mpc' = "exportar"
    /\ UNCHANGED <<fs_ci, src_files, proc_files, dst_files, dst_fijos, pdfs, f,
                   total_paginas, procesados, errores, out_path, writer,
                   devuelto>>
    /\ UNCHANGED scanQuietos
    /\ UNCHANGED dosVars
    /\ UNCHANGED textoVars

\* one iteration of "for fid, idx_last in pares": the file is written
ExportarUna ==
    /\ mpc = "exportar"
    /\ j <= Len(pares)
    /\ writer' = <<pares[j][2]>>
    /\ out_path' = RutaLibre
    /\ dst_files' = dst_files \cup {RutaLibre}
    /\ ya_usados' = ya_usados \cup {LowerRuta(RutaLibre)}
    /\ exportadas' = exportadas + 1
    /\ hist' = [hist EXCEPT ![pdfs[f]].escritas =
                   Append(@, <<pares[j][1], RutaLibre>>)]
    /\ j' = j + 1
    /\ UNCHANGED <<mpc, fs_ci, src_files, proc_files, dst_fijos, pdfs, f,
                   total_paginas, procesados, errores, escaneo, pares,
                   devuelto>>
    /\ UNCHANGED scanVars
    /\ UNCHANGED dosVars
    /\ UNCHANGED textoVars

\* open(out_path, "wb") or writer.write(f) raises: the exception leaves
\* procesar_pdf_compuesto and is caught in main; the file may stay behind
ExportarFalla_Sigue ==
    /\ mpc = "exportar"
    /\ j <= Len(pares)
    /\ \E deja \in BOOLEAN :
          dst_files' = IF deja THEN dst_files \cup {RutaLibre} ELSE dst_files
    /\ errores' = Append(errores, [fname |-> pdfs[f], causa |-> "escribir"])
    /\ j' = j + 1
    /\ UNCHANGED <<mpc, f, fs_ci, src_files, proc_files, dst_fijos, pdfs,
                   total_paginas, procesados, escaneo, pares, ya_usados,
                   exportadas, out_path, writer, devuelto, hist>>
    /\ UNCHANGED scanVars
    /\ UNCHANGED dosVars
    /\ UNCHANGED textoVars

ExportarFalla_Mueve ==
    /\ mpc = "exportar"
    /\ j <= Len(pares)
    /\ \E deja \in BOOLEAN :
          dst_files' = IF deja THEN dst_files \cup {RutaLibre} ELSE dst_files
    /\ errores' = Append(errores, [fname |-> pdfs[f], causa |-> "escribir"])
    /\ src_files' = src_files \ {pdfs[f]}
    /\ proc_files' = proc_files \cup {Destino(pdfs[f], proc_files)}
    /\ Avanza
    /\ n' = 0
    /\ writer' = <<>>
    /\ UNCHANGED <<fs_ci, dst_fijos, pdfs,
                   total_paginas, procesados, escaneo, pares, j, ya_usados,
                   exportadas, out_path, devuelto, hist>>
    /\ UNCHANGED scanQuietos
    /\ UNCHANGED dosVars
    /\ UNCHANGED textoVars

ExportarFalla_Cuenta ==
    /\ mpc = "exportar"
    /\ j <= Len(pares)
    /\ \E deja \in BOOLEAN :
          dst_files' = IF deja THEN dst_files \cup {RutaLibre} ELSE dst_files
    /\ errores' = Append(errores, [fname |-> pdfs[f], causa |-> "escribir"])
    /\ Avanza
    /\ total_paginas' = total_paginas + exportadas
    /\ procesados' = procesados + 1
    /\ n' = 0
    /\ writer' = <<>>
    /\ UNCHANGED <<fs_ci, src_files, proc_files, dst_fijos, pdfs,
                   escaneo, pares, j, ya_usados,
                   exportadas, out_path, devuelto, hist>>
    /\ UNCHANGED scanQuietos
    /\ UNCHANGED dosVars
    /\ UNCHANGED textoVars

ExportarFalla ==
    /\ mpc = "exportar"
    /\ j <= Len(pares)
    /\ \E deja \in BOOLEAN :
          dst_files' = IF deja THEN dst_files \cup {RutaLibre} ELSE dst_files
    /\ errores' = Append(errores, [fname |-> pdfs[f], causa |-> "escribir"])
    /\ Avanza
    /\ n' = 0
    /\ writer' = <<>>
    /\ UNCHANGED <<fs_ci, src_files, proc_files, dst_fijos, pdfs,
                   total_paginas, procesados, escaneo, pares, j, ya_usados,
                   exportadas, out_path, devuelto, hist>>
    /\ UNCHANGED scanQuietos
    /\ UNCHANGED dosVars
    /\ UNCHANGED textoVars

\* return exportadas; total_paginas += n; procesados += 1; mover_origen(...)
TerminarDoc ==
    /\ mpc = "exportar"
    /\ j > Len(pares)
    /\ devuelto' = Put(devuelto, pdfs[f], exportadas)
    /\ total_paginas' = total_paginas + exportadas
    /\ procesados' = procesados + 1
    /\ \E movido \in BOOLEAN :
          IF movido
          THEN /\ src_files' = src_files \ {pdfs[f]}
               /\ proc_files' = proc_files \cup {Destino(pdfs[f], proc_files)}
          ELSE UNCHANGED <<src_files, proc_files>>
    /\ Avanza
    /\ writer' = <<>>
    /\ UNCHANGED <<fs_ci, dst_files, dst_fijos, pdfs, errores, escaneo, pares,
                   j, ya_usados, exportadas, out_path, hist>>
    /\ UNCHANGED scanVars
    /\ UNCHANGED dosVars
    /\ UNCHANGED textoVars

NextLote ==
    \/ LimpiarYListar
    \/ AbrirFalla
    \/ AbrirDoc
    \/ ExportarUna
    \/ ExportarFalla
    \/ TerminarDoc

SpecLote == InitLote /\ [][NextLote]_vars

\* ------------------------------------- consecutive calls of the scan
\* A page of a PDF: the signals its text carries, and whether
\* page.extract_text() raises on it.
IdsDos == {"A", "B"}
PaginasDos == [id : IdsDos \cup {None}, cierre : BOOLEAN, falla : BOOLEAN]

\* detectar_id_factura("") is None and es_ultima_por_marca("") is False
SenalesVacio == [id |-> None, cierre |-> FALSE]

\* the signals of tx = _text(page): "" when extract_text() raises
Texto_SinExcept(page) == [id |-> page.id, cierre |-> page.cierre]

Texto(page) ==
    IF page.falla THEN SenalesVacio
    ELSE [id |-> page.id, cierre |-> page.cierre]

\* the same document with an empty text on the pages that cannot be read
Referencia(doc) ==
    [x \in DOMAIN doc |->
        IF doc[x].falla
        THEN [id |-> None, cierre |-> FALSE, falla |-> FALSE]
        ELSE doc[x]]

DocsDos == UNION { [1..m -> PaginasDos] : m \in 1..MaxPagesDos }

\* documents scanned between the two calls that are compared
DocsIntermedios ==
    { <<>>,
      << [id |-> "A", cierre |-> FALSE, falla |-> FALSE] >>,
      << [id |-> "B", cierre |-> TRUE, falla |-> FALSE],
         [id |-> "A", cierre |-> FALSE, falla |-> TRUE] >> }

InitDos ==
    /\ EscaneoInicial
    /\ documento \in DocsDos
    /\ reader = documento
    /\ n = Len(documento)
    /\ pasada = 1
    /\ previo = {}
    /\ LoteInicial
    /\ TextoInicial
    /\ fs_ci = FALSE
    /\ src_files = {}
    /\ proc_files = {}
    /\ dst_files = {}
    /\ dst_fijos = {}

\* tx = _text(page) of reader.pages[i], then the closing mark
LeerPagina ==
    /\ pc = "marca"
    /\ LET pg == Texto(reader[i + 1]) IN
          /\ paginas' = Append(paginas, pg)
          /\ PonEstado(MarcaUltima(EstadoActual, i, pg))
    /\ pc' = "detecta"
    /\ UNCHANGED <<n, i>>
    /\ UNCHANGED loteVars
    /\ UNCHANGED dosVars
    /\ UNCHANGED textoVars

\* the next call of procesar_pdf_compuesto: reader and the five locals are
\* created again; the second call reads another document, the third one
\* documento with empty text where it cannot be read
OtraPasada_ArrastraEstado ==
    /\ pc = "hecho"
    /\ pasada < 3
    /\ pasada' = pasada + 1
    /\ previo' = IF pasada = 1 THEN Segmentos ELSE previo
    /\ IF pasada = 1
       THEN reader' \in DocsIntermedios
       ELSE reader' = Referencia(documento)
    /\ n' = Len(reader')
    /\ i' = 0
    /\ paginas' = <<>>
    /\ pc' = "abrir"
    /\ UNCHANGED <<current_id, primera_pagina, ultima_pagina, orden_aparicion,
                   secuencia>>
    /\ UNCHANGED documento
    /\ UNCHANGED loteVars
    /\ UNCHANGED textoVars

OtraPasada ==
    /\ pc = "hecho"
    /\ pasada < 3
    /\ pasada' = pasada + 1
    /\ previo' = IF pasada = 1 THEN Segmentos ELSE previo
    /\ IF pasada = 1
       THEN reader' \in DocsIntermedios
       ELSE reader' = Referencia(documento)
    /\ n' = Len(reader')
    /\ i' = 0
    /\ paginas' = <<>>
    /\ PonEstado(Estado0)
    /\ pc' = "abrir"
    /\ UNCHANGED documento
    /\ UNCHANGED loteVars
    /\ UNCHANGED textoVars

NextDos == Abrir \/ LeerPagina \/ Detectar \/ Finalizar \/ OtraPasada

SpecDos == InitDos /\ [][NextDos]_vars

\* ------------------------------------------------- the text of a page
\* A text is a sequence of one-character strings; positions count from 1.
Minusculas == <<"a", "b", "c", "d", "e", "f", "g", "h", "i", "j", "k", "l", "m", "n", "o", "p", "q", "r", "s", "t", "u", "v", "w", "x", "y", "z", "á", "ó">>
Mayusculas == <<"A", "B", "C", "D", "E", "F", "G", "H", "I", "J", "K", "L", "M", "N", "O", "P", "Q", "R", "S", "T", "U", "V", "W", "X", "Y", "Z", "Á", "Ó">>
Digitos == <<"0", "1", "2", "3", "4", "5", "6", "7", "8", "9">>

\* \s, \d and \w of the regular expressions, on the characters of the model
IsSpace(c) == c \in {" ", "\t", "\n"}
IsDigit(c) == \E x \in 1..10 : Digitos[x] = c
IsLetter(c) == \E x \in 1..Len(Minusculas) : c \in {Minusculas[x], Mayusculas[x]}
IsWord(c) == IsLetter(c) \/ IsDigit(c) \/ c \in {"_", "º"}

\* str.upper() of one character (and the folding of re.IGNORECASE)
Upper(c) ==
    IF \E x \in 1..Len(Minusculas) : Minusculas[x] = c
    THEN Mayusculas[CHOOSE x \in 1..Len(Minusculas) : Minusculas[x] = c]
    ELSE c

MinDe(S) == CHOOSE a \in S : \A b \in S : a <= b
MaxDe(S) == CHOOSE a \in S : \A b \in S : a >= b

\* str.split(): the maximal runs without whitespace
RECURSIVE SplitDesde(_, _, _, _)
SplitDesde(t, p, w, acc) ==
    IF p > Len(t) THEN (IF w = <<>> THEN acc ELSE Append(acc, w))
    ELSE IF IsSpace(t[p])
         THEN SplitDesde(t, p + 1, <<>>, IF w = <<>> THEN acc ELSE Append(acc, w))
         ELSE SplitDesde(t, p + 1, Append(w, t[p]), acc)

\* " ".join(ws)
RECURSIVE Join(_)
Join(ws) ==
    IF ws = <<>> THEN <<>>
    ELSE IF Len(ws) = 1 THEN ws[1]
    ELSE ws[1] \o <<" ">> \o Join(Tail(ws))

\* t = " ".join((texto or "").split())
Normaliza(t) == Join(SplitDesde(t, 1, <<>>, <<>>))

\* str.strip(chars)
Strip(t, C) ==
    LET S == { p \in 1..Len(t) : t[p] \notin C }
    IN  IF S = {} THEN <<>> ELSE SubSeq(t, MinDe(S), MaxDe(S))

Espacios == {" ", "\t", "\n"}

\* \b at the gap before position p
WordAt(t, p) == p \in 1..Len(t) /\ IsWord(t[p])
Boundary(t, p) == WordAt(t, p - 1) # WordAt(t, p)

DigitsAt(t, p, m) == \A x \in p..(p + m - 1) : x <= Len(t) /\ IsDigit(t[x])

\* RE_DFORM = \bD\d{2}[\s./-]?\d{5,6}\b, IGNORECASE, tried at position p:
\* the position after the match, or 0.  The separator is taken when it is
\* there (without it the next character would have to be a digit), and six
\* digits are tried before five.
MatchDFORM(t, p) ==
    IF ~(p <= Len(t) /\ Upper(t[p]) = "D" /\ Boundary(t, p) /\ DigitsAt(t, p + 1, 2))
    THEN 0
    ELSE LET q == IF /\ p + 3 <= Len(t)
                     /\ (IsSpace(t[p + 3]) \/ t[p + 3] \in {".", "/", "-"})
                  THEN p + 4 ELSE p + 3
         IN  IF DigitsAt(t, q, 6) /\ Boundary(t, q + 6) THEN q + 6
             ELSE IF DigitsAt(t, q, 5) /\ Boundary(t, q + 5) THEN q + 5
             ELSE 0

\* RE_DFORM.search(t).group(0), or <<>> without a match
SearchDFORM(t) ==
    LET S == { p \in 1..Len(t) : MatchDFORM(t, p) # 0 }
    IN  IF S = {} THEN <<>>
        ELSE SubSeq(t, MinDe(S), MatchDFORM(t, MinDe(S)) - 1)

\* _limpio with the separators inside the token removed as well
limpio_SinSeparadores(token) ==
    LET a == Strip(Strip(token, Espacios), {" ", ":", "#", ".", "-"})
        b == SelectSeq(a, LAMBDA c : ~IsSpace(c) /\ c \notin {".", "/", "-"})
    IN  [x \in 1..Len(b) |-> Upper(b[x])]

\* _limpio(token): strip().strip(" :#.-"), no whitespace, upper()
limpio(token) ==
    LET a == Strip(Strip(token, Espacios), {" ", ":", "#", ".", "-"})
        b == SelectSeq(a, LAMBDA c : ~IsSpace(c))
    IN  [x \in 1..Len(b) |-> Upper(b[x])]

\* The pieces of RE_NFACT_HEAD as sets of positions the match can be at.
\* an optional character of the class C
Opt(t, P, C) ==
    P \cup { q + 1 : q \in { x \in P : x <= Len(t) /\ Upper(t[x]) \in C } }

\* \s*
Star(t, P) ==
    { q \in 1..(Len(t) + 1) :
        \E x \in P : x <= q /\ \A y \in x..(q - 1) : IsSpace(t[y]) }

\* the literal w, given in upper case
Lit(t, P, w) ==
    { q + Len(w) :
        q \in { x \in P : /\ x + Len(w) - 1 <= Len(t)
                          /\ \A y \in 1..Len(w) : Upper(t[x + y - 1]) = w[y] } }

\* RE_NFACT_HEAD =
\*   (?:N[\.\°º]?\s*o?\.?|Nº|No\.?|N\.)\s*(?:de\s*)?factura\b, IGNORECASE,
\* tried at position p: the positions after a match
HeadEnds(t, p) ==
    IF ~(p <= Len(t) /\ Upper(t[p]) = "N") THEN {}
    ELSE LET P0 == {p + 1}
             alt1 == Opt(t, Opt(t, Star(t, Opt(t, P0, {".", "°", "º"})), {"O"}), {"."})
             alt2 == Lit(t, P0, <<"º">>)
             alt3 == Opt(t, Lit(t, P0, <<"O">>), {"."})
             alt4 == Lit(t, P0, <<".">>)
             B == Star(t, alt1 \cup alt2 \cup alt3 \cup alt4)
             C == B \cup Star(t, Lit(t, B, <<"D", "E">>))
         IN  { q \in Lit(t, C, <<"F", "A", "C", "T", "U", "R", "A">>) : Boundary(t, q) }

\* m.end() of RE_NFACT_HEAD.search(t) as a position from 1, or 0
SearchHead(t) ==
    LET S == { p \in 1..Len(t) : HeadEnds(t, p) # {} }
    IN  IF S = {} THEN 0 ELSE MinDe(HeadEnds(t, MinDe(S)))

VentanaLen == 50

STOPWORDS ==
    { <<"V", "E", "N", "C", "I", "M", "I", "E", "N", "T", "O", "S">>,
      <<"V", "E", "N", "C", "I", "M", "I", "E", "N", "T", "O">>,
      <<"F", "A", "C", "T", "U", "R", "A", "S">>,
      <<"F", "A", "C", "T", "U", "R", "A">>,
      <<"T", "O", "T", "A", "L">>,
      <<"B", "A", "S", "E">>,
      <<"C", "L", "I", "E", "N", "T", "E">>,
      <<"I", "M", "P", "O", "R", "T", "E">>,
      <<"I", "V", "A">>,
      <<"A", "L", "B", "A", "R", "A", "N">>,
      <<"A", "L", "B", "A", "R", "Á", "N">>,
      <<"C", "O", "D", "I", "G", "O">>,
      <<"C", "Ó", "D", "I", "G", "O">>,
      <<"P", "A", "G", "I", "N", "A">>,
      <<"H", "O", "J", "A">>,
      <<"P", "A", "G", "E">>,
      <<"D", "A", "T", "O", "S">> }

\* re.split(r"[\s,:;|]+", s)[0]: what comes before the first separator
PrimerTrozo(s) ==
    LET S == { p \in 1..Len(s) : IsSpace(s[p]) \/ s[p] \in {",", ":", ";", "|"} }
    IN  IF S = {} THEN s ELSE SubSeq(s, 1, MinDe(S) - 1)

\* step 2 of detectar_id_factura, on the window after the header
DetectarEnVentana_SinDigitos(ventana) ==
    LET m2 == SearchDFORM(ventana)
        trozo == PrimerTrozo(Strip(ventana, Espacios))
        token == limpio(SelectSeq(trozo,
                     LAMBDA c : IsWord(c) \/ c \in {"/", ".", "-"}))
    IN  IF m2 # <<>> THEN limpio(m2)
        ELSE IF token # <<>> /\ token \notin STOPWORDS
        THEN token
        ELSE <<>>

DetectarEnVentana(ventana) ==
    LET m2 == SearchDFORM(ventana)
        trozo == PrimerTrozo(Strip(ventana, Espacios))
        token == limpio(SelectSeq(trozo,
                     LAMBDA c : IsWord(c) \/ c \in {"/", ".", "-"}))
    IN  IF m2 # <<>> THEN limpio(m2)
        ELSE IF /\ token # <<>>
                /\ \E x \in 1..Len(token) : IsDigit(token[x])
                /\ token \notin STOPWORDS
        THEN token
        ELSE <<>>

\* detectar_id_factura(texto); <<>> is the None of "nothing reliable"
detectar_id_factura(texto) ==
    LET t == Normaliza(texto)
        m == SearchDFORM(t)
        e == SearchHead(t)
    IN  IF m # <<>> THEN limpio(m)
        ELSE IF e # 0
        THEN DetectarEnVentana(
                 SubSeq(t, e, IF e + VentanaLen - 1 <= Len(t)
                              THEN e + VentanaLen - 1 ELSE Len(t)))
        ELSE <<>>

\* the first position from p on that is not whitespace
SkipSpaces(t, p) ==
    MinDe({ q \in p..(Len(t) + 1) : q = Len(t) + 1 \/ ~IsSpace(t[q]) })

\* how many digits stand at p
DigitRun(t, p) == MaxDe({ m \in 0..(Len(t) + 1 - p) : DigitsAt(t, p, m) })

\* int(s) of a string of digits
RECURSIVE ToInt(_)
ToInt(ds) ==
    IF ds = <<>> THEN 0
    ELSE 10 * ToInt(SubSeq(ds, 1, Len(ds) - 1))
           + (CHOOSE x \in 0..9 : Digitos[x + 1] = ds[Len(ds)])

\* RE_PAG_X_DE_Y =
\*   (?:p[aá]gina|hoja|page)\s*(\d{1,3})\s*(?:/|de|of)\s*(\d{1,3}), IGNORECASE,
\* tried at position p: <<int(group 1), int(group 2)>>, or <<>>.  Group 1
\* is the whole run of digits (a separator has to follow it), group 2 the
\* first three digits at most.
MatchPag(t, p) ==
    LET K == Lit(t, {p}, <<"P", "A", "G", "I", "N", "A">>) \cup Lit(t, {p}, <<"P", "Á", "G", "I", "N", "A">>)
               \cup Lit(t, {p}, <<"H", "O", "J", "A">>) \cup Lit(t, {p}, <<"P", "A", "G", "E">>)
    IN  IF K = {} THEN <<>>
        ELSE
        LET q1 == SkipSpaces(t, MinDe(K))
            r1 == DigitRun(t, q1)
        IN  IF r1 \notin 1..3 THEN <<>>
            ELSE
            LET q2 == SkipSpaces(t, q1 + r1)
                Sp == Lit(t, {q2}, <<"/">>) \cup Lit(t, {q2}, <<"D", "E">>)
                        \cup Lit(t, {q2}, <<"O", "F">>)
            IN  IF Sp = {} THEN <<>>
                ELSE
                LET q3 == SkipSpaces(t, MinDe(Sp))
                    r2 == DigitRun(t, q3)
                IN  IF r2 = 0 THEN <<>>
                    ELSE << ToInt(SubSeq(t, q1, q1 + r1 - 1)),
                            ToInt(SubSeq(t, q3, q3 + (IF r2 > 3 THEN 3 ELSE r2) - 1)) >>

es_ultima_por_marca_SinY(texto) ==
    LET S == { p \in 1..Len(texto) : MatchPag(texto, p) # <<>> }
    IN  IF S = {} THEN FALSE
        ELSE LET m == MatchPag(texto, MinDe(S)) IN m[1] = m[2]

\* es_ultima_por_marca(texto): the first match decides; y > 0 and x == y
es_ultima_por_marca(texto) ==
    LET S == { p \in 1..Len(texto) : MatchPag(texto, p) # <<>> }
    IN  IF S = {} THEN FALSE
        ELSE LET m == MatchPag(texto, MinDe(S)) IN m[2] > 0 /\ m[1] = m[2]

\* ----------------------------------------------------- the texts read
\* texts around an identifier of the primary format
PreD == { <<>>, <<"F", "r", "a", " ">>, <<"x">> }
LetraD == { <<"D">>, <<"d">> }
SepD == { <<>>, <<".">>, <<"-">>, <<"/">>, <<" ">>, <<"\n">>, <<"_">>, <<".", " ">> }
DigD == { <<"1", "4", "3", "1", "8">>, <<"1", "4", "3", "1", "8", "9">>, <<"1", "4", "3", "1">>, <<"1", "4", "3", "1", "8", "9", "9">> }
PostD == { <<>>, <<".">>, <<" ", "7">>, <<"a">> }

TextosD ==
    { pre \o d \o <<"2", "4">> \o sep \o dig \o post :
        pre \in PreD, d \in LetraD, sep \in SepD, dig \in DigD, post \in PostD }

\* texts around a page mark; the numbers come with their value
PrePag == { <<>>, <<"P", "a", "g", "i", "n", "a", " ", "1", " ", "d", "e", " ", "2", " ">>, <<"h", "o", "j", "a", " ", "d", "e", " ", "r", "u", "t", "a", " ">> }
PalabraPag == { <<"P", "a", "g", "i", "n", "a">>, <<"p", "á", "g", "i", "n", "a">>, <<"H", "O", "J", "A">>, <<"p", "a", "g", "e">>, <<"P", "a", "g">> }
NumX == { <<<<"2">>, 2>>, <<<<"5">>, 5>>, <<<<"0">>, 0>>, <<<<"0", "5">>, 5>>, <<<<"1", "2", "3", "4">>, 1234>>, <<<<>>, -1>> }
SepPag == { <<"/">>, <<" ", "d", "e", " ">>, <<"\n", "O", "F", " ">>, <<"-">> }
NumY == { <<<<"5">>, 5>>, <<<<"0">>, 0>>, <<<<"2">>, 2>>, <<<<"0", "0", "5">>, 5>>, <<<<"x">>, -1>>, <<<<>>, -1>> }

TextosPag ==
    { pre \o kw \o sp \o x[1] \o sep \o y[1] :
        pre \in PrePag, kw \in PalabraPag, sp \in {<<>>, <<" ">>},
        x \in NumX, sep \in SepPag, y \in NumY }

\* texts around the header "N. factura"
PreCab == { <<>>, <<"D", "a", "t", "o", "s", " ">> }
Cabecera == { <<"N", "º", " ", "f", "a", "c", "t", "u", "r", "a">>, <<"N", "o", ".", " ", "f", "a", "c", "t", "u", "r", "a">>, <<"N", ".", " ", "d", "e", " ", "f", "a", "c", "t", "u", "r", "a">>, <<"n", " ", "f", "a", "c", "t", "u", "r", "a">>, <<"N", ".", "o", " ", "f", "a", "c", "t", "u", "r", "a">>, <<"N", "u", "m", " ", "f", "a", "c", "t", "u", "r", "a">>, <<"N", "º", " ", "f", "a", "c", "t", "u", "r", "a", "s">> }
TrasCabecera == { <<>>, <<":", " ", "T", "O", "T", "A", "L">>, <<" ", "T", "O", "T", "A", "L">>, <<" ", "F", "e", "c", "h", "a", " ", "T", "O", "T", "A", "L">>, <<" ", "I", "V", "A">>, <<" ", "C", "l", "i", "e", "n", "t", "e", ":", " ", "B", "a", "s", "e">>, <<" ", "T", "O", "T", "A", "L", " ", "1", "2", "3">>, <<" ", "F", "2", "0", "2", "4", "-", "0", "0", "1">>, <<":", " ", "F", "2", "0", "2", "4", "-", "0", "0", "1">>, <<" ", "A", "/", "7", "7", ".">>, <<" ", "D", "2", "4", " ", "1", "4", "3", "1", "8", "x">>, <<" ", "T", "O", "T", "A", "L", " ", "i", "m", "p", "o", "r", "t", "e", " ", "b", "a", "s", "e", " ", "c", "l", "i", "e", "n", "t", "e", " ", "d", "a", "t", "o", "s", " ", "i", "v", "a", " ", "v", "e", "n", "c", "i", "m", "i", "e", "n", "t", "o", " ", "h", "o", "j", "a", " ", "2", "0", "2", "4">> }

TextosCab ==
    { pre \o cab \o tras : pre \in PreCab, cab \in Cabecera, tras \in TrasCabecera }

Textos == TextosD \cup TextosPag \cup TextosCab

InitTexto ==
    /\ tx \in Textos
    /\ tpc = "marca"
    /\ es_ultima = FALSE
    /\ detectado = <<>>
    /\ EscaneoInicial
    /\ n = 0
    /\ LoteInicial
    /\ DosInicial
    /\ fs_ci = FALSE
    /\ src_files = {}
    /\ proc_files = {}
    /\ dst_files = {}
    /\ dst_fijos = {}

\* es_ultima_por_marca(tx), line 228
EvaluarMarca ==
    /\ tpc = "marca"
    /\ es_ultima' = es_ultima_por_marca(tx)
    /\ tpc' = "detecta"
    /\ UNCHANGED <<tx, detectado>>
    /\ UNCHANGED <<scanVars, loteVars, dosVars>>

\* found = detectar_id_factura(tx), line 232
EvaluarId ==
    /\ tpc = "detecta"
    /\ detectado' = detectar_id_factura(tx)
    /\ tpc' = "hecho"
    /\ UNCHANGED <<tx, es_ultima>>
    /\ UNCHANGED <<scanVars, loteVars, dosVars>>

NextTexto == EvaluarMarca \/ EvaluarId

SpecTexto == InitTexto /\ [][NextTexto]_vars

\* ------------------------------ the search of a free name, step by step
\* paths "001_A__<base>_ULTIMA[_k].pdf" that may be in dst_dir already
RutasBusca == { Ruta(1, "A", b, k) : b \in {"X", "x"}, k \in 0..MaxSufijo }

\* the loop at lines 276-281 is entered with the unsuffixed out_path; the
\* paths used in this pass are paths written to dst_dir
InitBusca ==
    /\ mpc = "buscar"
    /\ fs_ci \in BOOLEAN
    /\ dst_files \in SUBSET RutasBusca
    /\ fs_ci => \A a, b \in dst_files : LowerRuta(a) = LowerRuta(b) => a = b
    /\ ya_usados \in SUBSET { LowerRuta(r) : r \in dst_files }
    /\ out_path \in { Ruta(1, "A", b, 0) : b \in {"X", "x"} }
    /\ dst_fijos = {}
    /\ src_files = {}
    /\ proc_files = {}
    /\ pdfs = <<>>
    /\ f = 1
    /\ total_paginas = 0
    /\ procesados = 0
    /\ errores = <<>>
    /\ escaneo = Estado0
    /\ pares = <<>>
    /\ j = 1
    /\ exportadas = 0
    /\ writer = <<>>
    /\ devuelto = EmptyDict
    /\ hist = EmptyDict
    /\ EscaneoInicial
    /\ n = 0
    /\ DosInicial
    /\ TextoInicial

\* the condition of the while holds: the next suffix is tried
ProbarSufijo_SaltaUno ==
    /\ mpc = "buscar"
    /\ LowerRuta(out_path) \in ya_usados \/ ExisteRuta(dst_files, out_path)
    /\ out_path' = [out_path EXCEPT !.k = @ + 2]
    /\ UNCHANGED <<mpc, fs_ci, src_files, proc_files, dst_files, dst_fijos,
                   pdfs, f, total_paginas, procesados, errores, escaneo,
                   pares, j, ya_usados, exportadas, writer, devuelto, hist>>
    /\ UNCHANGED <<scanVars, dosVars, textoVars>>

ProbarSufijo ==
    /\ mpc = "buscar"
    /\ LowerRuta(out_path) \in ya_usados \/ ExisteRuta(dst_files, out_path)
    /\ out_path' = [out_path EXCEPT !.k = @ + 1]
    /\ UNCHANGED <<mpc, fs_ci, src_files, proc_files, dst_files, dst_fijos,
                   pdfs, f, total_paginas, procesados, errores, escaneo,
                   pares, j, ya_usados, exportadas, writer, devuelto, hist>>
    /\ UNCHANGED <<scanVars, dosVars, textoVars>>

\* the condition of the while fails: the file is written at out_path
EscribirLibre ==
    /\ mpc = "buscar"
    /\ ~(LowerRuta(out_path) \in ya_usados \/ ExisteRuta(dst_files, out_path))
    /\ dst_files' = dst_files \cup {out_path}
    /\ ya_usados' = ya_usados \cup {LowerRuta(out_path)}
    /\ mpc' = "escrito"
    /\ UNCHANGED <<fs_ci, src_files, proc_files, dst_fijos, pdfs, f,
                   total_paginas, procesados, errores, escaneo, pares, j,
                   exportadas, out_path, writer, devuelto, hist>>
    /\ UNCHANGED <<scanVars, dosVars, textoVars>>

NextBusca == ProbarSufijo \/ EscribirLibre

SpecBusca == InitBusca /\ [][NextBusca]_vars

\* the loop is sequential code: an iteration that can run does run
SpecBuscaJusta == SpecBusca /\ WF_vars(NextBusca)

\* ------------------------------------------------- helpers of the claims
Pag(id, cierre) == [id |-> id, cierre |-> cierre]

\* identifiers detected on the pages whose identifier rule has run
IdsVistos == { paginas[x].id : x \in 1..i } \ {None}

\* 0-based index of the first page read so far that carries id
PrimeraVez(id) ==
    (CHOOSE x \in 1..Len(paginas) :
        /\ paginas[x].id = id
        /\ \A y \in 1..(x - 1) : paginas[y].id # id) - 1

\* X was active, another identifier took over on a page before page i, and
\* X is the active identifier again
Reaparecido(X) ==
    /\ X # None
    /\ X = current_id
    /\ \E p \in 1..i : p - 1 > primera_pagina[X] /\ paginas[p].id \notin {None, X}

\* ------------------------------------------------------------------- C1
\* C1 (as claimed): after the scan, the page exported for an identifier X
\* is never a page on which a different identifier was detected; a closing
\* page carrying B is never recorded as the last page of the previous A.
C1_PaginaPropia ==
    pc = "hecho" =>
        \A X \in DOMAIN ultima_pagina :
            paginas[ultima_pagina[X] + 1].id \in {None, X}

\* ------------------------------------------------------------------- C2
Doc6 == << Pag("A", FALSE), Pag("A", FALSE), Pag(None, FALSE),
           Pag("B", FALSE), Pag("B", FALSE), Pag("B", FALSE) >>

\* C2 (as claimed): the document [A, A, none, B, B, B] without closing
\* marks yields exactly the segments (A,0,1,1) and (B,3,5,2).
C2_Original ==
    (pc = "hecho" /\ paginas = Doc6) =>
        Segmentos = { <<"A", 0, 1, 1>>, <<"B", 3, 5, 2>> }

\* C2 (amended): the document [A, A, none, B, B, B] without closing marks
\* yields exactly the segments (A,0,2,1) and (B,3,5,2): the page without
\* identifier before the change belongs to A.
C2_Segmentos ==
    (pc = "hecho" /\ paginas = Doc6) =>
        Segmentos = { <<"A", 0, 2, 1>>, <<"B", 3, 5, 2>> }

C2_Witness == pc = "hecho" /\ paginas = Doc6 /\ "A" \in DOMAIN ultima_pagina

\* ------------------------------------------------------------------- C3
\* a closing page read while the reappeared X is active records page i
C3_CierreSobrescribe ==
    (pc = "marca" /\ Reaparecido(current_id) /\ paginas'[i + 1].cierre) =>
        ultima_pagina'[current_id] = i

\* an identifier change away from the reappeared X on a page without mark
C3_EsCambio ==
    /\ pc = "detecta"
    /\ Reaparecido(current_id)
    /\ paginas[i + 1].id \notin {None, current_id}
    /\ ~paginas[i + 1].cierre

\* C3 (as claimed): once X is active again, a closing page and an
\* identifier change away from X both give lastPage[X] a new value.
C3_Original ==
    [][ /\ C3_CierreSobrescribe
        /\ C3_EsCambio => ultima_pagina'[current_id] # ultima_pagina[current_id]
      ]_vars

\* C3 (amended): once X is active again, a closing page sets lastPage[X] to
\* that page (overwriting the earlier value), while an identifier change
\* away from X leaves the recorded lastPage[X] as it was.
C3_UltimaEscrituraGana ==
    [][ /\ C3_CierreSobrescribe
        /\ C3_EsCambio => ultima_pagina'[current_id] = ultima_pagina[current_id]
      ]_vars

C3_Witness ==
    /\ pc = "hecho"
    /\ paginas = << Pag("A", FALSE), Pag("B", FALSE), Pag("A", FALSE),
                    Pag(None, TRUE), Pag("B", FALSE) >>
    /\ ultima_pagina["A"] = 3

\* ------------------------------------------------------------------- C4
C4_Inv ==
    /\ secuencia = Cardinality(IdsVistos)
    /\ DOMAIN orden_aparicion = IdsVistos
    /\ DOMAIN primera_pagina = IdsVistos
    /\ { orden_aparicion[x] : x \in DOMAIN orden_aparicion } = 1..secuencia
    /\ \A a, b \in DOMAIN orden_aparicion :
          /\ (a # b => orden_aparicion[a] # orden_aparicion[b])
          /\ (orden_aparicion[a] < orden_aparicion[b]
                <=> PrimeraVez(a) < PrimeraVez(b))

C4_Estable ==
    \A id \in DOMAIN orden_aparicion :
        /\ id \in DOMAIN orden_aparicion'
        /\ orden_aparicion'[id] = orden_aparicion[id]
        /\ id \in DOMAIN primera_pagina'
        /\ primera_pagina'[id] = primera_pagina[id]

\* C4: orden_aparicion maps the identifiers seen so far one-to-one onto
\* 1..secuencia in order of first occurrence, and no later page changes the
\* order or the first page an identifier already has.
C4_OrdenDescubrimiento == []C4_Inv /\ [][C4_Estable]_vars

C4_Witness ==
    /\ secuencia = 3
    /\ Reaparecido(current_id)
    /\ orden_aparicion[current_id] = 1

\* ------------------------------------------------------------------- C5
\* C5: on an identifier change away from P, lastPage[P] becomes
\* max(i - 1, firstPage[P]) when P had no lastPage and keeps its value
\* otherwise; the identifier found becomes the active one.
C5_CambioCierraAnterior ==
    [][ (/\ pc = "detecta"
         /\ current_id # None
         /\ paginas[i + 1].id \notin {None, current_id})
        =>
        (/\ current_id' = paginas[i + 1].id
         /\ current_id \in DOMAIN ultima_pagina'
         /\ ultima_pagina'[current_id] =
               IF current_id \in DOMAIN ultima_pagina
               THEN ultima_pagina[current_id]
               ELSE Max(i - 1, primera_pagina[current_id]))
      ]_vars

C5_Witness ==
    /\ pc = "hecho"
    /\ paginas = << Pag("A", FALSE), Pag(None, TRUE), Pag(None, FALSE),
                    Pag("B", FALSE) >>
    /\ ultima_pagina["A"] = 1

\* ------------------------------------------------------------------- C6
Doc4 == << Pag("A", TRUE), Pag(None, FALSE), Pag("B", FALSE), Pag("B", TRUE) >>

C6_Doc4 ==
    (pc = "hecho" /\ paginas = Doc4) =>
        Segmentos = { <<"A", 0, 1, 1>>, <<"B", 2, 3, 2>> }

C6_Paso ==
    /\ pc = "marca" =>
          ultima_pagina' =
              IF current_id # None /\ paginas'[i + 1].cierre
              THEN Put(ultima_pagina, current_id, i)
              ELSE ultima_pagina
    /\ (pc = "detecta" /\ current_id = None) => ultima_pagina' = ultima_pagina

ErroresDe(fname) == { e \in 1..Len(errores) : errores[e].fname = fname }

Posicion(fname) == CHOOSE p \in 1..Len(pdfs) : pdfs[p] = fname

FallosDe(causa) == { e \in 1..Len(errores) : errores[e].causa = causa }

\* ------------------------------------------------------------------- C7
\* C7 (as claimed): when the write of one segment fails, every other
\* segment of the same document is still exported.
C7_Original ==
    \A e \in FallosDe("escribir") :
        LET h == hist[errores[e].fname]
        IN  Len(h.escritas) >= Len(h.fids) - 1

\* C7 (amended): a write failure is surfaced once, for the whole document,
\* and ends that document's export: the segments before the failing one (in
\* discovery order) stay exported, the failing one and the later ones are
\* not exported, no count is returned; the batch goes on with the next
\* document.
C7_FalloCortaDocumento ==
    \A e \in FallosDe("escribir") :
        LET fname == errores[e].fname
            h == hist[fname]
        IN  /\ Len(h.escritas) < Len(h.fids)
            /\ \A p \in 1..Len(h.escritas) : h.escritas[p][1] = h.fids[p]
            /\ ErroresDe(fname) = {e}
            /\ fname \notin DOMAIN devuelto
            /\ Posicion(fname) < f
            /\ (mpc = "exportar" => pdfs[f] # fname)

C7_Witness ==
    /\ mpc = "fin"
    /\ Len(pdfs) = 2
    /\ FallosDe("escribir") = {1}
    /\ errores[1].fname = pdfs[1]
    /\ Len(hist[pdfs[1]].fids) = 2
    /\ Len(hist[pdfs[1]].escritas) = 0
    /\ pdfs[2] \in DOMAIN devuelto
    /\ devuelto[pdfs[2]] = 2

\* ------------------------------------------------------------------- C8
C8_Inv ==
    /\ f \in 1..(Len(pdfs) + 1)
    /\ mpc = "fin" => f = Len(pdfs) + 1
    /\ \A p \in 1..Len(pdfs) :
          LET fname == pdfs[p]
              ne == Cardinality(ErroresDe(fname))
          IN  /\ p < f => \/ fname \in DOMAIN devuelto /\ ne = 0
                          \/ fname \notin DOMAIN devuelto /\ ne = 1
              /\ p >= f => fname \notin DOMAIN devuelto /\ ne = 0
              /\ p > f => fname \notin DOMAIN hist
    /\ \A a, b \in 1..Len(errores) :
          a < b => Posicion(errores[a].fname) < Posicion(errores[b].fname)
    /\ \A e \in FallosDe("abrir") : errores[e].fname \notin DOMAIN hist

\* the step on which a document fails to open writes nothing
C8_Paso ==
    (Len(errores') = Len(errores) + 1 /\ errores'[Len(errores')].causa = "abrir")
        => /\ dst_files' = dst_files
           /\ total_paginas' = total_paginas
           /\ procesados' = procesados
           /\ f' = f + 1

\* C8: every document of the list is attempted, in order; a document that
\* fails to open exports nothing and adds exactly one entry to errores; the
\* documents after it are still processed.
C8_FalloNoDetieneLote == []C8_Inv /\ [][C8_Paso]_vars

C8_Witness ==
    /\ mpc = "fin"
    /\ Len(pdfs) = 2
    /\ Len(errores) = 1
    /\ errores[1] = [fname |-> pdfs[1], causa |-> "abrir"]
    /\ pdfs[2] \in DOMAIN devuelto
    /\ devuelto[pdfs[2]] >= 1

\* ------------------------------------------------------------------- C9
\* C9: a document that has left src_dir has a returned export count and its
\* turn is over; a document with an entry in errores is still in src_dir.
C9_MoverSoloTrasExito ==
    \A p \in 1..Len(pdfs) :
        LET fname == pdfs[p]
        IN  /\ fname \notin src_files =>
                  /\ fname \in DOMAIN devuelto
                  /\ p < f
                  /\ devuelto[fname] = Len(hist[fname].escritas)
                  /\ devuelto[fname] = Len(hist[fname].fids)
            /\ ErroresDe(fname) # {} => fname \in src_files

C9_Witness ==
    /\ mpc = "fin"
    /\ Len(pdfs) = 2
    /\ pdfs[1] \notin src_files
    /\ devuelto[pdfs[1]] = 1
    /\ ErroresDe(pdfs[2]) # {}
    /\ pdfs[2] \in DOMAIN hist
    /\ Len(hist[pdfs[2]].escritas) = 1
    /\ pdfs[2] \in src_files

\* ------------------------------------------------------------------ C10
\* a file has just been written: out_path' is its path
C10_Escribe == exportadas' = exportadas + 1

C10_DistintaEnLaPasada ==
    /\ \A p \in 1..Len(hist[pdfs[f]].escritas) :
          LowerRuta(hist[pdfs[f]].escritas[p][2]) # LowerRuta(out_path')
    /\ hist'[pdfs[f]].escritas =
          Append(hist[pdfs[f]].escritas, <<pares[j][1], out_path'>>)
    /\ dst_files' = dst_files \cup {out_path'}

\* C10 (as claimed): every written path differs, ignoring case, from the
\* paths written earlier in the pass and from every file already in the
\* destination directory.
C10_Original ==
    [][ C10_Escribe =>
          /\ C10_DistintaEnLaPasada
          /\ \A q \in dst_files : LowerRuta(q) # LowerRuta(out_path')
      ]_vars

\* C10 (amended): every written path differs, ignoring case, from the paths
\* written earlier in the pass, and is not the path of an existing file of
\* the destination directory as the filesystem compares names (exactly on a
\* case-sensitive one, ignoring case on a case-insensitive one), so no
\* export overwrites a file; a segment whose unsuffixed name is taken gets
\* the same name with a suffix _k, k >= 1.
C10_SinColision ==
    [][ C10_Escribe =>
          /\ C10_DistintaEnLaPasada
          /\ out_path' \notin dst_files
          /\ fs_ci => \A q \in dst_files : LowerRuta(q) # LowerRuta(out_path')
          /\ [out_path' EXCEPT !.k = 0] =
                Ruta(escaneo.orden_aparicion[pares[j][1]],
                     nombre_seguro(pares[j][1]), pdfs[f].stem, 0)
          /\ ([out_path' EXCEPT !.k = 0] \in dst_files => out_path'.k >= 1)
      ]_vars

C10_Witness ==
    /\ exportadas >= 1
    /\ out_path.k = 1
    /\ [out_path EXCEPT !.k = 0] \in dst_files
    /\ Len(pdfs) = 2
    /\ f = 2
    /\ pdfs[1] \in DOMAIN devuelto
    /\ devuelto[pdfs[1]] >= 1

\* ------------------------------------------------------------------ C11
\* C11: at the end of the scan an active identifier without lastPage gets
\* lastPage = n - 1; an active identifier that has one keeps it; the
\* lastPage of every other identifier is left as it was.
C11_CierreAlFinal ==
    [][ pc = "final" =>
          /\ DOMAIN ultima_pagina' =
                DOMAIN ultima_pagina \cup ({current_id} \ {None})
          /\ \A id \in DOMAIN ultima_pagina' :
                ultima_pagina'[id] =
                    IF id \in DOMAIN ultima_pagina THEN ultima_pagina[id]
                    ELSE n - 1
          /\ current_id' = current_id
      ]_vars

C11_Witness ==
    /\ pc = "hecho"
    /\ paginas = << Pag("A", FALSE), Pag(None, TRUE), Pag("B", FALSE),
                    Pag(None, FALSE) >>
    /\ ultima_pagina["A"] = 1
    /\ ultima_pagina["B"] = 3

\* ------------------------------------------------------------------ C15
\* the page being processed carries no identifier
C15_SinId ==
    \/ pc = "marca" /\ paginas'[i + 1].id = None
    \/ pc = "detecta" /\ paginas[i + 1].id = None

\* C15: a page without identifier changes neither current_id nor
\* firstPage, discoveryOrder or sequenceCounter, and changes lastPage only
\* through the closing mark, for the identifier that is already active.
C15_SinIdSinTransicion ==
    [][ C15_SinId =>
          /\ current_id' = current_id
          /\ primera_pagina' = primera_pagina
          /\ orden_aparicion' = orden_aparicion
          /\ secuencia' = secuencia
          /\ ultima_pagina' =
                IF pc = "marca" /\ paginas'[i + 1].cierre /\ current_id # None
                THEN Put(ultima_pagina, current_id, i)
                ELSE ultima_pagina
      ]_vars

C15_Witness ==
    /\ pc = "hecho"
    /\ paginas = << Pag("A", FALSE), Pag(None, FALSE), Pag(None, TRUE),
                    Pag(None, FALSE) >>
    /\ Segmentos = { <<"A", 0, 2, 1>> }

\* ------------------------------------------------------------------ C20
\* identifiers detected anywhere in the document read
IdsDetectados == { paginas[x].id : x \in 1..Len(paginas) } \ {None}

\* C20: after the scan of a document with pages, the identifiers with a
\* lastPage are exactly the identifiers with a discovery order, which are
\* exactly the identifiers detected: one segment each, so the number of
\* segments handed to the export is the number of distinct identifiers.
C20_UnSegmentoPorId ==
    (pc = "hecho" /\ n >= 1) =>
        /\ DOMAIN ultima_pagina = DOMAIN orden_aparicion
        /\ DOMAIN orden_aparicion = IdsDetectados
        /\ Cardinality(Segmentos) = Cardinality(IdsDetectados)
        /\ Len(Pares(EstadoActual)) = Cardinality(IdsDetectados)
        /\ { Pares(EstadoActual)[x][1] : x \in 1..Len(Pares(EstadoActual)) }
              = IdsDetectados

C20_Witness ==
    /\ pc = "hecho"
    /\ paginas = << Pag("A", FALSE), Pag("B", TRUE), Pag("A", FALSE),
                    Pag("C/1", FALSE) >>
    /\ Cardinality(Segmentos) = 3

\* ------------------------------------------------------------------ C13
\* an iteration of the export loop writes its file
C13_Escribe == mpc = "exportar" /\ exportadas' = exportadas + 1

\* procesar_pdf_compuesto returns to main
C13_Retorna == mpc = "exportar" /\ mpc' # "exportar" /\ errores' = errores

\* C13: the export writes one new file per resolved segment, holding the
\* single page reader.pages[lastPage] of that segment, in ascending
\* discovery order, returns the number of files written, and leaves the
\* source document in place while it runs.
C13_UnaPaginaPorSegmento ==
    [][ /\ C13_Escribe =>
            /\ writer' = << escaneo.ultima_pagina[pares[j][1]] >>
            /\ out_path' \notin dst_files
            /\ dst_files' = dst_files \cup {out_path'}
            /\ \A a \in 1..(j - 1) :
                  escaneo.orden_aparicion[pares[a][1]]
                     < escaneo.orden_aparicion[pares[j][1]]
        /\ C13_Retorna =>
            LET escritas == hist[pdfs[f]].escritas IN
            /\ devuelto'[pdfs[f]] = Len(escritas)
            /\ Len(escritas) = Cardinality(DOMAIN escaneo.ultima_pagina)
            /\ { escritas[a][1] : a \in 1..Len(escritas) }
                  = DOMAIN escaneo.ultima_pagina
            /\ Cardinality({ escritas[a][2] : a \in 1..Len(escritas) })
                  = Len(escritas)
            /\ \A a \in 1..Len(escritas) : escritas[a][2] \in dst_files
        /\ (mpc' = "exportar") => src_files' = src_files
      ]_vars

C13_Witness ==
    /\ mpc = "exportar"
    /\ escaneo.ultima_pagina = ("A" :> 1 @@ "C/1" :> 0)
    /\ escaneo.orden_aparicion = ("A" :> 2 @@ "C/1" :> 1)
    /\ j = 3
    /\ exportadas = 2
    /\ writer = <<1>>

\* ------------------------------------------------------------------ C14
\* C14: a document without pages resolves nothing, writes nothing, returns
\* 0 without an exception, and main counts it as processed and not as an
\* error.
C14_SinPaginas ==
    [][ /\ (mpc = "doc" /\ mpc' = "exportar" /\ n' = 0) =>
            /\ pares' = <<>>
            /\ DOMAIN escaneo'.ultima_pagina = {}
            /\ errores' = errores
            /\ dst_files' = dst_files
        /\ (mpc = "exportar" /\ n = 0) =>
            /\ mpc' # "exportar"
            /\ devuelto'[pdfs[f]] = 0
            /\ errores' = errores
            /\ procesados' = procesados + 1
            /\ total_paginas' = total_paginas
            /\ dst_files' = dst_files
      ]_vars

C14_Witness ==
    /\ mpc = "fin"
    /\ Len(pdfs) = 2
    /\ errores = <<>>
    /\ procesados = 2
    /\ DOMAIN hist = {pdfs[1], pdfs[2]}
    /\ devuelto[pdfs[1]] = 2
    /\ devuelto[pdfs[2]] = 0
    /\ n = 0
    /\ total_paginas = 2

\* ------------------------------------------------------------------ C17
\* some page of documento cannot be read
C17_HayFallo == \E x \in 1..Len(documento) : documento[x].falla

\* C17: when the text of a page cannot be extracted the scan goes on to the
\* last page, reads the page as one without signals, and resolves the
\* segments of the same document with an empty text on that page.
C17_FalloComoVacia ==
    (pc = "hecho" /\ C17_HayFallo) =>
        /\ i = n
        /\ Len(paginas) = Len(reader)
        /\ pasada \in {1, 3} =>
              \A x \in 1..Len(documento) :
                  /\ paginas[x].id =
                        IF documento[x].falla THEN None ELSE documento[x].id
                  /\ paginas[x].cierre =
                        IF documento[x].falla THEN FALSE
                        ELSE documento[x].cierre
        /\ pasada = 3 => Segmentos = previo

C17_Witness ==
    /\ pc = "hecho"
    /\ pasada = 3
    /\ documento = << [id |-> "A", cierre |-> FALSE, falla |-> FALSE],
                      [id |-> "B", cierre |-> TRUE, falla |-> TRUE],
                      [id |-> "B", cierre |-> FALSE, falla |-> FALSE] >>
    /\ previo = { <<"A", 0, 1, 1>>, <<"B", 2, 2, 2>> }
    /\ Segmentos = previo

\* ------------------------------------------------------------------ C18
\* C18: every call of the scan starts from fresh locals, so a second scan
\* of the same pages resolves the same segments as the first one, whatever
\* document was scanned in between.
C18_SinEstadoPrevio ==
    /\ [](pc = "abrir" =>
            /\ current_id = None
            /\ DOMAIN primera_pagina = {}
            /\ DOMAIN ultima_pagina = {}
            /\ DOMAIN orden_aparicion = {}
            /\ secuencia = 0)
    /\ []((pc = "hecho" /\ pasada = 3 /\ ~C17_HayFallo) =>
            Segmentos = previo)

C18_Witness ==
    /\ pc = "hecho"
    /\ pasada = 3
    /\ reader = documento
    /\ documento = << [id |-> "B", cierre |-> FALSE, falla |-> FALSE],
                      [id |-> "A", cierre |-> TRUE, falla |-> FALSE],
                      [id |-> None, cierre |-> FALSE, falla |-> FALSE] >>
    /\ Segmentos = { <<"B", 0, 1, 1>>, <<"A", 1, 2, 2>> }
    /\ Segmentos = previo

\* ------------------------------------------------------------------ C12
\* the four spellings of the claim
C12_Grafias == { <<"D", "2", "4", ".", "1", "4", "3", "1", "8">>, <<"D", "2", "4", "-", "1", "4", "3", "1", "8">>, <<"D", "2", "4", "/", "1", "4", "3", "1", "8">>, <<"D", "2", "4", " ", "1", "4", "3", "1", "8">> }

\* C12 (as claimed): whatever separator the primary format is written
\* with, the detector returns the same identifier "D2414318".
C12_Original ==
    (tpc = "hecho" /\ tx \in C12_Grafias) => detectado = <<"D", "2", "4", "1", "4", "3", "1", "8">>

\* C12 (amended): the detector returns the matched text in upper case and
\* without whitespace; a dot, a slash or a hyphen between the two groups of
\* digits stays in the identifier, so only the spellings with a space or
\* with no separator give the same identifier.
C12_SeparadorSeConserva ==
    tpc = "hecho" =>
        \A pre \in { <<>>, <<"F", "r", "a", " ">> }, d \in LetraD, sep \in { <<>>, <<".">>, <<"-">>, <<"/">>, <<" ">>, <<"\n">> }, dig \in { <<"1", "4", "3", "1", "8">>, <<"1", "4", "3", "1", "8", "9">> }, post \in { <<>>, <<".">>, <<" ", "7">> } :
            tx = pre \o d \o <<"2", "4">> \o sep \o dig \o post =>
                detectado = <<"D", "2", "4">>
                              \o (IF sep \in { <<".">>, <<"-">>, <<"/">> } THEN sep ELSE <<>>) \o dig

C12_Witness ==
    /\ tpc = "hecho"
    /\ tx = <<"D", "2", "4", ".", "1", "4", "3", "1", "8">>
    /\ detectado = <<"D", "2", "4", ".", "1", "4", "3", "1", "8">>

\* ------------------------------------------------------------------ C16
\* the phrase is one the pattern reads: a keyword, a page number of one to
\* three digits, a separator "/", "de" or "of", and a number
C16_Legible(kw, x, sep, y) ==
    /\ kw # <<"P", "a", "g">>
    /\ x[2] \in 0..999
    /\ sep # <<"-">>
    /\ y[2] >= 0

\* C16: the page is a closing page iff the first phrase "page X of Y" of
\* its text reads as integers with Y > 0 and X = Y; it is not one for
\* "2 of 5", for "0 of 0", nor when the phrase is missing or unreadable.
\* The function has a value for every text.
C16_CierrePorMarca ==
    tpc # "marca" =>
        /\ \A pre \in PrePag, kw \in PalabraPag, sp \in {<<>>, <<" ">>},
              x \in NumX, sep \in SepPag, y \in NumY :
              tx = pre \o kw \o sp \o x[1] \o sep \o y[1] =>
                  es_ultima =
                      IF pre = <<"P", "a", "g", "i", "n", "a", " ", "1", " ", "d", "e", " ", "2", " ">> THEN FALSE
                      ELSE /\ C16_Legible(kw, x, sep, y)
                           /\ y[2] > 0
                           /\ x[2] = y[2]
        /\ tx \in TextosD \cup TextosCab => es_ultima = FALSE

C16_Witness ==
    /\ tpc = "hecho"
    /\ tx = <<"P", "a", "g", "i", "n", "a", " ", "5", "/", "5">>
    /\ es_ultima = TRUE

\* ------------------------------------------------------------------ C19
\* the spellings of the header the pattern recognises
C19_Cabeceras == { <<"N", "º", " ", "f", "a", "c", "t", "u", "r", "a">>, <<"N", "o", ".", " ", "f", "a", "c", "t", "u", "r", "a">>, <<"N", ".", " ", "d", "e", " ", "f", "a", "c", "t", "u", "r", "a">>, <<"n", " ", "f", "a", "c", "t", "u", "r", "a">>, <<"N", ".", "o", " ", "f", "a", "c", "t", "u", "r", "a">> }

\* C19: without an identifier of the primary format, a header "N. factura"
\* followed in its window by words of the stoplist and by no token with a
\* digit gives no identifier, while the same header followed by a token
\* with a digit gives that token.
C19_PalabraTrasCabecera ==
    tpc = "hecho" =>
        \A pre \in PreCab, cab \in C19_Cabeceras :
            /\ \A tras \in { <<":", " ", "T", "O", "T", "A", "L">>, <<" ", "T", "O", "T", "A", "L">>, <<" ", "F", "e", "c", "h", "a", " ", "T", "O", "T", "A", "L">>, <<" ", "I", "V", "A">>, <<" ", "C", "l", "i", "e", "n", "t", "e", ":", " ", "B", "a", "s", "e">>, <<" ", "T", "O", "T", "A", "L", " ", "i", "m", "p", "o", "r", "t", "e", " ", "b", "a", "s", "e", " ", "c", "l", "i", "e", "n", "t", "e", " ", "d", "a", "t", "o", "s", " ", "i", "v", "a", " ", "v", "e", "n", "c", "i", "m", "i", "e", "n", "t", "o", " ", "h", "o", "j", "a", " ", "2", "0", "2", "4">> } :
                  tx = pre \o cab \o tras => detectado = <<>>
            /\ tx = pre \o cab \o <<" ", "F", "2", "0", "2", "4", "-", "0", "0", "1">> => detectado = <<"F", "2", "0", "2", "4", "-", "0", "0", "1">>

C19_Witness ==
    /\ tpc = "hecho"
    /\ tx = <<"N", "º", " ", "f", "a", "c", "t", "u", "r", "a", " ", "F", "e", "c", "h", "a", " ", "T", "O", "T", "A", "L">>
    /\ detectado = <<>>

\* ------------------------------------------------------------------ C21
\* C21: at every point of the scan and after it, every recorded page is a
\* page of the document and no segment ends before it begins:
\* 0 <= firstPage[id] <= lastPage[id] <= n - 1; the pairs handed to the
\* export index pages that exist.
C21_PaginasEnRango ==
    /\ \A id \in DOMAIN primera_pagina : primera_pagina[id] \in 0..(n - 1)
    /\ DOMAIN ultima_pagina \subseteq DOMAIN primera_pagina
    /\ \A id \in DOMAIN ultima_pagina :
          /\ primera_pagina[id] <= ultima_pagina[id]
          /\ ultima_pagina[id] <= n - 1
    /\ pc = "hecho" =>
          \A x \in 1..Len(Pares(EstadoActual)) :
              Pares(EstadoActual)[x][2] \in 0..(n - 1)

C21_Witness ==
    /\ pc = "hecho"
    /\ n = 4
    /\ primera_pagina = ("A" :> 0 @@ "B" :> 2)
    /\ ultima_pagina = ("A" :> 1 @@ "B" :> 3)

\* ------------------------------------------------------------------ C22
\* the pages whose identifier rule has run and that carry id
C22_PaginasCon(id) == { x \in 1..i : paginas[x].id = id }

C22_Inv ==
    /\ \A id \in DOMAIN primera_pagina :
          /\ C22_PaginasCon(id) # {}
          /\ \A x \in C22_PaginasCon(id) : primera_pagina[id] <= x - 1
          /\ primera_pagina[id] + 1 \in C22_PaginasCon(id)
    /\ \A a, b \in DOMAIN orden_aparicion :
          (orden_aparicion[a] < orden_aparicion[b])
             <=> (primera_pagina[a] < primera_pagina[b])

\* C22: firstPage[id] is the first page on which id was detected, the
\* discovery order of two identifiers compares as their first pages do, and
\* an active identifier is only ever replaced by another identifier.
C22_PrimeraPaginaYOrden ==
    /\ []C22_Inv
    /\ [][current_id # None => current_id' # None]_vars

C22_Witness ==
    /\ pc = "hecho"
    /\ paginas = << Pag(None, FALSE), Pag("B", FALSE), Pag("A", FALSE),
                    Pag("B", FALSE), Pag(None, TRUE) >>
    /\ primera_pagina = ("B" :> 1 @@ "A" :> 2)
    /\ orden_aparicion = ("B" :> 1 @@ "A" :> 2)
    /\ current_id = "B"

\* ------------------------------------------------------------------ C23
\* sum of the counts returned by the documents of S
RECURSIVE C23_Suma(_)
C23_Suma(S) ==
    IF S = {} THEN 0
    ELSE LET a == CHOOSE b \in S : TRUE
         IN  devuelto[a] + C23_Suma(S \ {a})

\* C23: every source PDF ends either counted as processed or in the error
\* list, never both, and the page total is the sum of the counts returned
\* by the documents that completed; a document that fails adds nothing,
\* whatever it had exported before failing.
C23_CuentasDelLote ==
    /\ mpc = "fin" => procesados + Len(errores) = Len(pdfs)
    /\ mpc \in {"doc", "exportar"} => procesados + Len(errores) = f - 1
    /\ Cardinality(DOMAIN devuelto) = procesados
    /\ \A x \in 1..Len(errores) : errores[x].fname \notin DOMAIN devuelto
    /\ \A x, y \in 1..Len(errores) :
          errores[x].fname = errores[y].fname => x = y
    /\ total_paginas = C23_Suma(DOMAIN devuelto)

C23_Witness ==
    /\ mpc = "fin"
    /\ Len(pdfs) = 2
    /\ procesados = 1
    /\ Len(errores) = 1
    /\ errores[1].fname = pdfs[1]
    /\ pdfs[1] \in DOMAIN hist
    /\ Len(hist[pdfs[1]].escritas) = 1
    /\ pdfs[2] \in DOMAIN devuelto
    /\ devuelto[pdfs[2]] = 2
    /\ total_paginas = 2

\* ------------------------------------------------------------------ C24
\* the path was used in this pass or is present in dst_dir
C24_Ocupada(r) ==
    \/ LowerRuta(r) \in ya_usados
    \/ IF fs_ci THEN \E q \in dst_files : LowerRuta(q) = LowerRuta(r)
                ELSE r \in dst_files

\* C24: the search starts at the unsuffixed name, goes through the
\* suffixes _1, _2, ... one by one while the path is taken, ends, and ends
\* at the first path that is neither used in this pass nor in dst_dir.
C24_BusquedaTermina ==
    /\ [][ mpc = "buscar" =>
             \/ /\ C24_Ocupada(out_path)
                /\ mpc' = "buscar"
                /\ out_path' = [out_path EXCEPT !.k = out_path.k + 1]
             \/ /\ ~C24_Ocupada(out_path)
                /\ \A x \in 0..(out_path.k - 1) :
                      C24_Ocupada([out_path EXCEPT !.k = x])
                /\ out_path = BuscaRuta([out_path EXCEPT !.k = 0], 1,
                                        ya_usados, dst_files)
                /\ mpc' = "escrito"
                /\ out_path' = out_path
                /\ dst_files' = dst_files \cup {out_path}
         ]_vars
    /\ <>(mpc = "escrito")

C24_Witness ==
    /\ mpc = "escrito"
    /\ ~fs_ci
    /\ out_path = Ruta(1, "A", "X", 2)
    /\ Ruta(1, "A", "X", 0) \notin dst_files
    /\ Ruta(1, "A", "x", 0) \in dst_files
    /\ Ruta(1, "A", "X", 1) \in dst_files

\* ------------------------------------------------------------------ C25
\* os.path.exists of a name in src_dir/Procesados
C25_Existe(q) ==
    IF fs_ci THEN \E r \in proc_files : LowerPdf(r) = LowerPdf(q)
             ELSE q \in proc_files

\* the document returned without error and main calls mover_origen
C25_TrasProcesar == mpc = "exportar" /\ procesados' = procesados + 1

\* C25: moving a processed source never replaces a file of Procesados: the
\* source goes under its own name when that is free and otherwise under
\* the first free name among name_1, name_2, ...; when the move fails
\* nothing changes; either way no error is recorded and the batch goes on.
C25_MoverSinSobrescribir ==
    [][ C25_TrasProcesar =>
          /\ errores' = errores
          /\ f' = f + 1
          /\ mpc' = IF f = Len(pdfs) THEN "fin" ELSE "doc"
          /\ \/ /\ src_files' = src_files
                /\ proc_files' = proc_files
             \/ /\ src_files' = src_files \ {pdfs[f]}
                /\ \E k \in 0..(Cardinality(proc_files) + 1) :
                      LET d == [pdfs[f] EXCEPT !.k = k] IN
                      /\ ~C25_Existe(d)
                      /\ d \notin proc_files
                      /\ proc_files' = proc_files \cup {d}
                      /\ k = 0 \/ C25_Existe(pdfs[f])
                      /\ \A x \in 1..(k - 1) :
                            C25_Existe([pdfs[f] EXCEPT !.k = x])
      ]_vars

C25_Witness ==
    /\ mpc = "fin"
    /\ fs_ci
    /\ pdfs = << Pdf("X", "pdf") >>
    /\ procesados = 1
    /\ src_files = {}
    /\ proc_files = { Pdf("x", "pdf"), [Pdf("x", "pdf") EXCEPT !.k = 1],
                      [Pdf("X", "pdf") EXCEPT !.k = 2] }

====
